---- MODULE Spec2Model ----
(***************************************************************************)
(* A model of maxim0r/boltstore: a gorilla/sessions store kept in a bbolt  *)
(* file.  The state is the bbolt file (nested buckets), the store handle   *)
(* and its options, the request flows that hold a session between New and  *)
(* Save, the tokens clients hold, the wall clock and the reaper goroutine. *)
(* Every db.View / db.Update of the code is one atomic step: New is one    *)
(* step, Save with MaxAge > 0 is two (up to its Update, and from it on),    *)
(* a worker tick is its read pass and its write pass.                      *)
(***************************************************************************)
EXTENDS Integers, Sequences, FiniteSets, TLC

VARIABLES
    file,       \* the bbolt file: top-level bucket name -> entry
    dbOpen,     \* the store's *bolt.DB handle is open (BoltStore.db)
    opts,       \* BoltStore.options / Codecs of the current store
    now,        \* wall clock, in half seconds since the Unix epoch
    req,        \* request flows: the session each holds, its position in Save
    issued,     \* sealed tokens handed to clients in Set-Cookie directives
    reaper,     \* the worker goroutine of the current store
    cancelled,  \* ctx.Done() of the current store's worker is closed
    hist        \* history of the run, read by the properties only

vars == <<file, dbOpen, opts, now, req, issued, reaper, cancelled, hist>>

----------------------------------------------------------------------------
(* Bounds of the model *)

\* number of distinct session identifiers the generator can hand out
MaxIds == 2
\* how far the clock advances, in half seconds
Horizon == 3
\* the clock at Init, in half seconds (Unix second 8, so that expired_at
\* values of one and of two decimal digits both occur)
StartNow == 17
\* Options.SessionExpire, in seconds (the default is 24h, scaled down)
SessionExpire == 1
\* the non-zero Options.MaxLength of the model (the test uses 4096)
MaxLen == 4

\* time.Now() is finer than the second expired_at is stored in
SubSecond == 2

MaxNow == StartNow + Horizon

IdNames == <<"ID1", "ID2", "ID3", "ID4">>
Ids == {IdNames[i] : i \in 1..MaxIds}

Reqs == {"r1", "r2"}

Nil == "nil"

----------------------------------------------------------------------------
(* bbolt: a bucket is a function from keys to entries; an entry is a       *)
(* nested bucket or a leaf value.  Operations return [err, b].             *)

keyValues == "values"
keyExpiredAt == "expired_at"
DefaultBucketName == "sessions"

EmptyBucket == << >>
Leaf(v) == [flag |-> "leaf", v |-> v]
Sub(b) == [flag |-> "bucket", b |-> b]

HasBucket(b, key) == key \in DOMAIN b /\ b[key].flag = "bucket"
HasLeaf(b, key) == key \in DOMAIN b /\ b[key].flag = "leaf"

\* Bucket.Bucket(key) of a bucket known to hold it
BucketOf(b, key) == b[key].b

\* Bucket.CreateBucketIfNotExists(key)
CreateBucketIfNotExists(b, key) ==
    IF key = "" THEN [err |-> "ErrBucketNameRequired", b |-> b]
    ELSE IF HasLeaf(b, key) THEN [err |-> "ErrIncompatibleValue", b |-> b]
    ELSE IF HasBucket(b, key) THEN [err |-> Nil, b |-> b]
    ELSE [err |-> Nil, b |-> (key :> Sub(EmptyBucket)) @@ b]

\* Bucket.Put(key, value)
BucketPut(b, key, v) ==
    IF key = "" THEN [err |-> "ErrKeyRequired", b |-> b]
    ELSE IF HasBucket(b, key) THEN [err |-> "ErrIncompatibleValue", b |-> b]
    ELSE [err |-> Nil, b |-> (key :> Leaf(v)) @@ b]

Without(b, key) == [k \in DOMAIN b \ {key} |-> b[k]]

\* a Delete that also removes nested buckets
BucketDeleteAny(b, key) ==
    IF key \notin DOMAIN b THEN [err |-> Nil, b |-> b]
    ELSE [err |-> Nil, b |-> Without(b, key)]

\* Bucket.Delete(key): nothing is done for an absent key, and a key that
\* names a nested bucket is refused (bbolt v1.3.7, ErrIncompatibleValue)
BucketDelete(b, key) ==
    IF key \notin DOMAIN b THEN [err |-> Nil, b |-> b]
    ELSE IF HasBucket(b, key) THEN [err |-> "ErrIncompatibleValue", b |-> b]
    ELSE [err |-> Nil, b |-> Without(b, key)]

\* the bucket b with its nested bucket `key` replaced by sub
WithSub(b, key, sub) == (key :> Sub(sub)) @@ b

----------------------------------------------------------------------------
(* strconv.FormatInt / ParseInt in base 10, on sequences of digit          *)
(* characters                                                              *)

Digits == <<"0", "1", "2", "3", "4", "5", "6", "7", "8", "9">>

RECURSIVE FormatNat(_)
FormatNat(n) ==
    IF n < 10 THEN <<Digits[n + 1]>>
    ELSE Append(FormatNat(n \div 10), Digits[(n % 10) + 1])

FormatInt(n) == IF n < 0 THEN <<"-">> \o FormatNat(-n) ELSE FormatNat(n)

DigitVal(c) == CHOOSE d \in 0..9 : Digits[d + 1] = c
IsDigit(c) == \E d \in 0..9 : Digits[d + 1] = c

RECURSIVE ParseNat(_)
ParseNat(s) ==
    IF Len(s) = 0 THEN 0
    ELSE 10 * ParseNat(SubSeq(s, 1, Len(s) - 1)) + DigitVal(s[Len(s)])

\* ParseInt(s, 10, 64): [err, n]; the empty string and non-digits fail
ParseInt(s) ==
    LET body == IF Len(s) > 0 /\ s[1] \in {"-", "+"} THEN Tail(s) ELSE s
    IN  IF Len(body) = 0 \/ \E i \in 1..Len(body) : ~IsDigit(body[i])
        THEN [err |-> "ErrSyntax", n |-> 0]
        ELSE [err |-> Nil,
              n |-> IF Len(s) > 0 /\ s[1] = "-" THEN -ParseNat(body)
                    ELSE ParseNat(body)]

\* []byte values kept in the file: what wrote them, the content, the length
Ascii(s) == [fmt |-> "ascii", data |-> s, n |-> Len(s)]
NilBytes == [fmt |-> "nil", data |-> << >>, n |-> 0]

----------------------------------------------------------------------------
(* time *)

\* Time.Unix()
Unix(t) == t \div SubSecond
\* time.Unix(sec, 0).Before(t)
UnixBefore(sec, t) == sec * SubSecond < t
\* an Add that adds nothing
AddNothing(t, secs) == t

\* Time.Add(d) for a duration of whole seconds
AddSeconds(t, secs) == t + secs * SubSecond

----------------------------------------------------------------------------
(* Session payloads (Session.Values): a sequence of entries, each a typed  *)
(* key and a typed value with the size its encoding takes.                 *)

SKey(x) == [t |-> "string", x |-> x]
IKey(x) == [t |-> "int", x |-> x]
Val(t, x, n) == [t |-> t, x |-> x, n |-> n]

P_empty == << >>
P_foo == <<[k |-> SKey("k"), v |-> Val("string", "foo", 3)]>>
P_int == <<[k |-> SKey("n"), v |-> Val("int", "1", 1)]>>
P_big == <<[k |-> SKey("big"), v |-> Val("bytes", "0000", 4)]>>
P_ikey == <<[k |-> IKey("1"), v |-> Val("string", "x", 1)]>>

RECURSIVE PayloadLen(_)
PayloadLen(values) ==
    IF Len(values) = 0 THEN 0
    ELSE 1 + values[1].v.n + PayloadLen(Tail(values))

\* what a value becomes when it goes through the textual format: numbers
\* come back as float64, byte slices as base64 strings
JSONValue(v) ==
    IF v.t = "int" THEN Val("float", v.x, v.n)
    ELSE IF v.t = "bytes" THEN Val("string", "base64", 4 * ((v.n + 2) \div 3))
    ELSE v

JSONNormalize(values) ==
    [i \in 1..Len(values) |-> [k |-> values[i].k, v |-> JSONValue(values[i].v)]]

\* SessionSerializer.Serialize: [err, b]
GobSerialize(values) ==
    [err |-> Nil,
     b |-> [fmt |-> "gob", data |-> values, n |-> PayloadLen(values)]]

JSONSerialize(values) ==
    IF \E i \in 1..Len(values) : values[i].k.t # "string"
    THEN [err |-> "non-string key", b |-> NilBytes]
    ELSE [err |-> Nil,
          b |-> [fmt |-> "json", data |-> JSONNormalize(values),
                 n |-> PayloadLen(JSONNormalize(values))]]

Serialize(ser, values) ==
    IF ser = "gob" THEN GobSerialize(values) ELSE JSONSerialize(values)

\* SessionSerializer.Deserialize into a fresh session: [err, values]
Deserialize(ser, b) ==
    IF b.fmt = ser THEN [err |-> Nil, values |-> b.data]
    ELSE [err |-> "decode error", values |-> P_empty]

\* what a payload is expected to come back as after a save and a load
RoundTrip(ser, values) == IF ser = "gob" THEN values ELSE JSONNormalize(values)

----------------------------------------------------------------------------
(* securecookie: a sealed token binds the cookie name and the identifier   *)
(* under the key material; opening checks both.                            *)

SessionName == "session-key"
NoCookie == [name |-> "", id |-> "", key |-> ""]
ForgedKey == "forged"

\* securecookie.EncodeMulti(name, id, codecs...): [err, token]
EncodeMulti(name, id, keys) ==
    IF keys = "empty" THEN [err |-> "no codecs provided", token |-> NoCookie]
    ELSE [err |-> Nil, token |-> [name |-> name, id |-> id, key |-> keys]]

\* securecookie.DecodeMulti(name, value, &id, codecs...): [err, id]
DecodeMulti(name, token, keys) ==
    IF keys = "empty" THEN [err |-> "no codecs provided", id |-> ""]
    ELSE IF token.name # name \/ token.key # keys
         THEN [err |-> "the value is not valid", id |-> ""]
         ELSE [err |-> Nil, id |-> token.id]

----------------------------------------------------------------------------
(* The transactions of the store, as functions of the file: [err, file].   *)
(* An Update whose function returns an error is rolled back.               *)

RootOf(f, name) == BucketOf(f, name)

\* NewStoreWithDB: the Update that creates the root bucket
TxCreateRootFresh(f, name) ==
    [err |-> Nil, file |-> (name :> Sub(EmptyBucket)) @@ f]

TxCreateRoot(f, name) ==
    LET c == CreateBucketIfNotExists(f, name)
    IN  [err |-> c.err, file |-> IF c.err = Nil THEN c.b ELSE f]

\* a save that writes the two entries under each other's key
TxSaveSwapped(f, name, id, b, expiredAt) ==
    LET c == CreateBucketIfNotExists(RootOf(f, name), id)
        p1 == BucketPut(BucketOf(c.b, id), keyExpiredAt, b)
        p2 == BucketPut(p1.b, keyValues, expiredAt)
    IN  IF c.err # Nil THEN [err |-> c.err, file |-> f]
        ELSE [err |-> Nil, file |-> WithSub(f, name, WithSub(c.b, id, p2.b))]

\* a save that keeps the values of a Record that is already there and
\* writes only its expired_at
TxSaveMerged(f, name, id, b, expiredAt) ==
    LET root == RootOf(f, name)
        c == CreateBucketIfNotExists(root, id)
        p1 == IF HasBucket(root, id) /\ HasLeaf(BucketOf(root, id), keyValues)
              THEN [err |-> Nil, b |-> BucketOf(root, id)]
              ELSE BucketPut(BucketOf(c.b, id), keyValues, b)
        p2 == BucketPut(p1.b, keyExpiredAt, expiredAt)
    IN  IF c.err # Nil THEN [err |-> c.err, file |-> f]
        ELSE [err |-> Nil, file |-> WithSub(f, name, WithSub(c.b, id, p2.b))]

\* BoltStore.save: the Update that writes the Record
TxSave(f, name, id, b, expiredAt) ==
    LET c == CreateBucketIfNotExists(RootOf(f, name), id)
        p1 == BucketPut(BucketOf(c.b, id), keyValues, b)
        p2 == BucketPut(p1.b, keyExpiredAt, expiredAt)
    IN  IF c.err # Nil THEN [err |-> c.err, file |-> f]
        ELSE IF p1.err # Nil THEN [err |-> p1.err, file |-> f]
        ELSE IF p2.err # Nil THEN [err |-> p2.err, file |-> f]
        ELSE [err |-> Nil, file |-> WithSub(f, name, WithSub(c.b, id, p2.b))]

\* BoltStore.delete: the Update behind a save with MaxAge <= 0
TxDelete(f, name, id) ==
    LET root == RootOf(f, name)
    IN  IF ~HasBucket(root, id)
        THEN [err |-> "invalid session bucket", file |-> f]
        ELSE LET d == BucketDelete(BucketOf(root, id), id)
             IN  IF d.err # Nil THEN [err |-> d.err, file |-> f]
                 ELSE [err |-> Nil,
                       file |-> WithSub(f, name, WithSub(root, id, d.b))]

\* Bucket.Get(key): nil for an absent key and for a nested bucket
BucketGet(b, key) == IF HasLeaf(b, key) THEN b[key].v ELSE NilBytes

\* the worker's classification of one session bucket at instant t
IsExpired(sessionBucket, t) ==
    LET ev == BucketGet(sessionBucket, keyExpiredAt)
        p == IF ev.fmt = "ascii" THEN ParseInt(ev.data)
             ELSE IF ev.fmt = "nil" THEN ParseInt(<< >>)
             ELSE [err |-> "ErrSyntax", n |-> 0]
    IN  IF p.err # Nil THEN TRUE ELSE UnixBefore(p.n, t)

\* a load that takes the data for a session whatever Deserialize returns
LoadIgnoringError(f, name, id, ser) ==
    LET root == RootOf(f, name)
        data == BucketGet(BucketOf(root, id), keyValues)
        d == Deserialize(ser, data)
    IN  IF ~HasBucket(root, id)
        THEN [err |-> "invalid session bucket", exists |-> FALSE,
              values |-> P_empty]
        ELSE IF data.fmt = "nil"
        THEN [err |-> Nil, exists |-> FALSE, values |-> P_empty]
        ELSE [err |-> Nil, exists |-> TRUE, values |-> d.values]

\* a load that finds nothing once expired_at has passed
LoadUnlessExpired(f, name, id, ser) ==
    LET root == RootOf(f, name)
        data == BucketGet(BucketOf(root, id), keyValues)
        d == Deserialize(ser, data)
    IN  IF ~HasBucket(root, id)
        THEN [err |-> "invalid session bucket", exists |-> FALSE,
              values |-> P_empty]
        ELSE IF data.fmt = "nil" \/ IsExpired(BucketOf(root, id), now)
        THEN [err |-> Nil, exists |-> FALSE, values |-> P_empty]
        ELSE IF d.err # Nil
        THEN [err |-> d.err, exists |-> FALSE, values |-> P_empty]
        ELSE [err |-> Nil, exists |-> TRUE, values |-> d.values]

\* BoltStore.load: the View that reads the Record: [err, exists, values]
Load(f, name, id, ser) ==
    LET root == RootOf(f, name)
        data == BucketGet(BucketOf(root, id), keyValues)
        d == Deserialize(ser, data)
    IN  IF ~HasBucket(root, id)
        THEN [err |-> "invalid session bucket", exists |-> FALSE,
              values |-> P_empty]
        ELSE IF data.fmt = "nil"
        THEN [err |-> Nil, exists |-> FALSE, values |-> P_empty]
        ELSE IF d.err # Nil
        THEN [err |-> d.err, exists |-> FALSE, values |-> P_empty]
        ELSE [err |-> Nil, exists |-> TRUE, values |-> d.values]

\* a key of the sessions bucket that is no session: a plain value another
\* user of the same *bolt.DB put there (lower case sorts after the base32
\* identifiers)
ForeignKey == "meta"

\* Bucket.ForEach visits the keys in byte order
KeyOrder == IdNames \o <<ForeignKey>>
ScanOrder(root) == SelectSeq(KeyOrder, LAMBDA k : k \in DOMAIN root)

\* the worker's read pass: the keys it collects, in scan order; ForEach
\* stops at the first child that is no bucket
RECURSIVE CollectExpired(_, _, _)
CollectExpired(root, keys, t) ==
    IF Len(keys) = 0 THEN << >>
    ELSE IF ~HasBucket(root, keys[1]) THEN << >>
    ELSE (IF IsExpired(BucketOf(root, keys[1]), t) THEN <<keys[1]>> ELSE << >>)
         \o CollectExpired(root, Tail(keys), t)

ExpiredSessionKeys(f, name, t) ==
    IF ~HasBucket(f, name) THEN << >>
    ELSE CollectExpired(RootOf(f, name), ScanOrder(RootOf(f, name)), t)

\* the error the ForEach callback returns for a child that is no bucket;
\* the worker drops ForEach's result
ScanError(f, name) ==
    IF /\ HasBucket(f, name)
       /\ \E k \in DOMAIN RootOf(f, name) : ~HasBucket(RootOf(f, name), k)
    THEN "invalid session bucket for reap"
    ELSE Nil

\* the worker's write pass: Delete of each collected key on the root bucket,
\* the first error ends the Update
RECURSIVE DeleteKeys(_, _)
DeleteKeys(root, keys) ==
    IF Len(keys) = 0 THEN [err |-> Nil, b |-> root]
    ELSE LET d == BucketDelete(root, keys[1])
         IN  IF d.err # Nil THEN [err |-> d.err, b |-> root]
             ELSE DeleteKeys(d.b, Tail(keys))

\* a write pass that keeps the removal of its first key when a later one
\* fails
TxReapFirstKept(f, name, keys) ==
    IF ~HasBucket(f, name) \/ Len(keys) = 0 THEN [err |-> Nil, file |-> f]
    ELSE [err |-> IF Len(keys) > 1 THEN "ErrIncompatibleValue" ELSE Nil,
          file |-> WithSub(f, name, Without(RootOf(f, name), keys[1]))]

TxReap(f, name, keys) ==
    IF ~HasBucket(f, name) THEN [err |-> Nil, file |-> f]
    ELSE LET d == DeleteKeys(RootOf(f, name), keys)
         IN  IF d.err # Nil THEN [err |-> d.err, file |-> f]
             ELSE [err |-> Nil, file |-> WithSub(f, name, d.b)]

----------------------------------------------------------------------------
(* The store and the request flows *)

BucketName == DefaultBucketName

\* sessions.Options.MaxAge of the store: int(opts.SessionExpire / time.Second)
DefaultMaxAge == SessionExpire

\* the sessions bucket of the file, empty when the file has none
Root == IF HasBucket(file, BucketName) THEN RootOf(file, BucketName)
        ELSE EmptyBucket
RootIn(f) == IF HasBucket(f, BucketName) THEN RootOf(f, BucketName)
             ELSE EmptyBucket

\* db.View / db.Update on a closed handle
NotOpen == "database not open"

NoSession ==
    [pc |-> "idle", id |-> "", isNew |-> FALSE, values |-> P_empty,
     maxAge |-> 0, cookie |-> NoCookie, err |-> Nil, resp |-> << >>,
     b |-> NilBytes, expAt |-> NilBytes, at |-> 0]

\* a cookie that takes its MaxAge from the store's default options
NewCookieStoreAge(name, value, maxAge) ==
    [name |-> name, value |-> value, maxAge |-> SessionExpire]

\* sessions.NewCookie(name, value, options)
NewCookie(name, value, maxAge) ==
    [name |-> name, value |-> value, maxAge |-> maxAge]

\* Save sets the cookie whatever the error
SaveResponseAlways(err, cookie) == <<cookie>>

\* Save: http.SetCookie is reached only past the error returns
SaveResponse(err, cookie) == IF err = Nil THEN <<cookie>> ELSE << >>

\* a ceiling check that lets one byte too many through
TooBigOffByOne(b, maxLength) == maxLength # 0 /\ b.n > maxLength + 1

\* BoltStore.save: the size ceiling
TooBig(b, maxLength) == maxLength # 0 /\ b.n > maxLength

\* identifiers some session, token or Record carries
UsedIds ==
    DOMAIN Root \cup {t.id : t \in issued} \cup {req[r].id : r \in Reqs}

\* securecookie.GenerateRandomKey(32), base32: an identifier never seen
FreshId ==
    LET i == CHOOSE i \in 1..MaxIds :
                 /\ IdNames[i] \notin UsedIds
                 /\ \A j \in 1..(i - 1) : IdNames[j] \in UsedIds
    IN  IdNames[i]

\* a New that keeps the identifier of the token only when its Record loads
NewSessionDropsId(c) ==
    LET fresh == [NoSession EXCEPT !.pc = "have", !.isNew = TRUE,
                                   !.maxAge = DefaultMaxAge, !.cookie = c]
        d == DecodeMulti(SessionName, c, opts.keys)
        l == Load(file, BucketName, d.id, opts.ser)
    IN  IF c = NoCookie THEN fresh
        ELSE IF d.err # Nil THEN [fresh EXCEPT !.err = d.err]
        ELSE IF ~(l.err = Nil /\ l.exists) THEN [fresh EXCEPT !.err = l.err]
        ELSE [fresh EXCEPT !.id = d.id, !.isNew = FALSE,
                           !.values = l.values]

\* BoltStore.New: the session for the cookie c
NewSession(c) ==
    LET fresh == [NoSession EXCEPT !.pc = "have", !.isNew = TRUE,
                                   !.maxAge = DefaultMaxAge, !.cookie = c]
        d == DecodeMulti(SessionName, c, opts.keys)
        l == Load(file, BucketName, d.id, opts.ser)
    IN  IF c = NoCookie THEN fresh
        ELSE IF d.err # Nil THEN [fresh EXCEPT !.err = d.err]
        ELSE [fresh EXCEPT !.id = d.id,
                           !.isNew = ~(l.err = Nil /\ l.exists),
                           !.values = l.values,
                           !.err = l.err]

\* the history: the last step, the flow that took it, and whether a New
\* directly follows a Save that emitted its cookie
Log(op, r) == [hist EXCEPT !.op = op, !.r = r, !.afterSave = FALSE]

New(r, c) ==
    /\ dbOpen
    /\ req[r].pc \in {"idle", "have", "done"}
    /\ req' = [req EXCEPT ![r] = NewSession(c)]
    /\ hist' = [Log("new", r) EXCEPT
           !.afterSave = (hist.op = "save" /\ req[hist.r].err = Nil)]
    /\ UNCHANGED <<file, dbOpen, opts, now, issued, reaper, cancelled>>

\* Save of a session marked for deletion (Options.MaxAge <= 0)
SaveDelete(r, values, maxAge) ==
    /\ dbOpen
    /\ req[r].pc = "have"
    /\ maxAge <= 0
    /\ LET d == TxDelete(file, BucketName, req[r].id)
       IN  /\ file' = d.file
           /\ req' = [req EXCEPT ![r] =
                  [@ EXCEPT !.pc = "done", !.values = values,
                            !.maxAge = maxAge, !.err = d.err,
                            !.resp = SaveResponse(d.err,
                                NewCookie(SessionName, NoCookie, maxAge))]]
           /\ hist' = [Log("delete", r) EXCEPT
                  !.live = IF d.err = Nil THEN @ \ {req[r].id} ELSE @]
    /\ UNCHANGED <<dbOpen, opts, now, issued, reaper, cancelled>>

\* Save with MaxAge > 0, up to the Update: the identifier, the serialized
\* payload, the ceiling and the expiry instant
SaveBegin(r, values, maxAge) ==
    /\ dbOpen
    /\ req[r].pc = "have"
    /\ maxAge > 0
    /\ req[r].id = "" => \E i \in Ids : i \notin UsedIds
    /\ LET id == IF req[r].id = "" THEN FreshId ELSE req[r].id
           s == Serialize(opts.ser, values)
           base == [req[r] EXCEPT !.id = id, !.values = values,
                                  !.maxAge = maxAge, !.resp = << >>]
       IN  req' = [req EXCEPT ![r] =
               IF s.err # Nil THEN [base EXCEPT !.pc = "done", !.err = s.err]
               ELSE IF TooBig(s.b, opts.maxLength)
               THEN [base EXCEPT !.pc = "done",
                                 !.err = "the value to store is too big"]
               ELSE [base EXCEPT !.pc = "commit", !.err = Nil, !.b = s.b,
                        !.at = now,
                        !.expAt = Ascii(FormatInt(
                            Unix(AddSeconds(now, SessionExpire))))]]
    /\ hist' = Log("begin", r)
    /\ UNCHANGED <<file, dbOpen, opts, now, issued, reaper, cancelled>>

\* Save with MaxAge > 0, from the Update on: the Record, the token, the cookie
SaveCommit(r) ==
    /\ req[r].pc = "commit"
    /\ LET u == IF dbOpen
                THEN TxSave(file, BucketName, req[r].id, req[r].b,
                            req[r].expAt)
                ELSE [err |-> NotOpen, file |-> file]
           e == EncodeMulti(SessionName, req[r].id, opts.keys)
           err == IF u.err # Nil THEN u.err ELSE e.err
       IN  /\ file' = u.file
           /\ req' = [req EXCEPT ![r] =
                  [@ EXCEPT !.pc = "done", !.err = err,
                            !.b = NilBytes, !.expAt = NilBytes,
                            !.resp = SaveResponse(err,
                                NewCookie(SessionName, e.token,
                                          req[r].maxAge))]]
           /\ issued' = IF err = Nil THEN issued \cup {e.token} ELSE issued
           /\ hist' = IF u.err # Nil THEN Log("save", r)
                      ELSE [Log("save", r) EXCEPT
                               !.live = @ \cup {req[r].id},
                               !.rec = (req[r].id :>
                                           [values |-> req[r].b,
                                            expired_at |-> req[r].expAt]) @@ @,
                               !.sv = [id |-> req[r].id,
                                       values |-> req[r].values,
                                       ser |-> opts.ser, restarted |-> FALSE,
                                       token |-> IF err = Nil THEN e.token
                                                 ELSE NoCookie,
                                       resaved |->
                                           /\ HasBucket(Root, req[r].id)
                                           /\ IsExpired(
                                                  BucketOf(Root, req[r].id),
                                                  req[r].at)]]
    /\ UNCHANGED <<dbOpen, opts, now, reaper, cancelled>>

----------------------------------------------------------------------------
(* The life of the store and of the file *)

Close ==
    /\ dbOpen
    /\ dbOpen' = FALSE
    /\ hist' = Log("close", "")
    /\ UNCHANGED <<file, opts, now, req, issued, reaper, cancelled>>

\* NewStore on the same file: a new handle, new options, a new worker
Open(keys, ser, maxLength) ==
    /\ ~dbOpen
    /\ LET c == TxCreateRoot(file, BucketName)
       IN  /\ c.err = Nil
           /\ file' = c.file
    /\ dbOpen' = TRUE
    /\ opts' = [keys |-> keys, ser |-> ser, maxLength |-> maxLength]
    /\ reaper' = [pc |-> "select", keys |-> << >>, readAt |-> 0]
    /\ cancelled' = FALSE
    /\ req' = [r \in Reqs |-> NoSession]
    /\ hist' = [Log("open", "") EXCEPT !.sv.restarted = (hist.sv.id # "")]
    /\ UNCHANGED <<now, issued>>

\* the file is removed while no store holds it (os.Remove in the test)
RemoveFile ==
    /\ ~dbOpen
    /\ file # EmptyBucket
    /\ file' = EmptyBucket
    /\ hist' = [Log("remove", "") EXCEPT !.live = {}, !.rec = << >>]
    /\ UNCHANGED <<dbOpen, opts, now, req, issued, reaper, cancelled>>

Tick ==
    /\ now < MaxNow
    /\ now' = now + 1
    /\ hist' = Log("tick", "")
    /\ UNCHANGED <<file, dbOpen, opts, req, issued, reaper, cancelled>>

----------------------------------------------------------------------------
(* The worker *)

\* a worker whose ticker still runs its passes after ctx.Done() was taken
ReaperReadAfterStop ==
    /\ reaper.pc \in {"select", "stopped"}
    /\ LET keys == IF dbOpen THEN ExpiredSessionKeys(file, BucketName, now)
                   ELSE << >>
       IN  reaper' = [pc |-> IF Len(keys) > 0 THEN "write" ELSE "select",
                      keys |-> keys, readAt |-> now]
    /\ hist' = [Log("read", "") EXCEPT
           !.readErr = IF dbOpen THEN ScanError(file, BucketName)
                       ELSE NotOpen]
    /\ UNCHANGED <<file, dbOpen, opts, now, req, issued, cancelled>>

\* case <-ticker.C, the View: collect the expired session keys
ReaperRead ==
    /\ reaper.pc = "select"
    /\ LET keys == IF dbOpen THEN ExpiredSessionKeys(file, BucketName, now)
                   ELSE << >>
       IN  reaper' = [pc |-> IF Len(keys) > 0 THEN "write" ELSE "select",
                      keys |-> keys, readAt |-> now]
    /\ hist' = [Log("read", "") EXCEPT
           !.readErr = IF dbOpen THEN ScanError(file, BucketName)
                       ELSE NotOpen]
    /\ UNCHANGED <<file, dbOpen, opts, now, req, issued, cancelled>>

\* the Update that removes the collected keys
ReaperWrite ==
    /\ reaper.pc = "write"
    /\ LET u == IF dbOpen THEN TxReap(file, BucketName, reaper.keys)
                ELSE [err |-> NotOpen, file |-> file]
       IN  /\ file' = u.file
           /\ hist' = [Log("write", "") EXCEPT
                  !.live = IF u.err = Nil
                           THEN @ \ {reaper.keys[i] : i \in 1..Len(reaper.keys)}
                           ELSE @,
                  !.writeErr = u.err]
    /\ reaper' = [reaper EXCEPT !.pc = "select"]
    /\ UNCHANGED <<dbOpen, opts, now, req, issued, cancelled>>

\* the context of the worker is cancelled
Cancel ==
    /\ ~cancelled
    /\ reaper.pc # "stopped"
    /\ cancelled' = TRUE
    /\ hist' = Log("cancel", "")
    /\ UNCHANGED <<file, dbOpen, opts, now, req, issued, reaper>>

\* case <-ctx.Done()
ReaperStop ==
    /\ reaper.pc = "select"
    /\ cancelled
    /\ reaper' = [reaper EXCEPT !.pc = "stopped", !.keys = << >>]
    /\ hist' = Log("stop", "")
    /\ UNCHANGED <<file, dbOpen, opts, now, req, issued, cancelled>>

----------------------------------------------------------------------------
(* Specifications *)

KeySets == {"k1", "empty"}
Serializers == {"gob", "json"}
MaxLengths == {0, MaxLen}
Payloads == {P_foo, P_int, P_big, P_ikey}
Forged == [name |-> SessionName, id |-> IdNames[1], key |-> ForgedKey]

NoSave ==
    [id |-> "", values |-> P_empty, ser |-> "", restarted |-> FALSE,
     token |-> NoCookie, resaved |-> FALSE]

InitHist ==
    [op |-> "init", r |-> "", afterSave |-> FALSE, sv |-> NoSave,
     live |-> {}, rec |-> << >>, readErr |-> Nil, writeErr |-> Nil]

\* the state after NewStoreWithDB on a database whose file is f
InitOn(f, keys, ser, maxLength) ==
    /\ file = TxCreateRoot(f, BucketName).file
    /\ dbOpen = TRUE
    /\ opts = [keys |-> keys, ser |-> ser, maxLength |-> maxLength]
    /\ now = StartNow
    /\ req = [r \in Reqs |-> NoSession]
    /\ issued = {}
    /\ reaper = [pc |-> "select", keys |-> << >>, readAt |-> 0]
    /\ cancelled = FALSE
    /\ hist = InitHist

\* the state after NewStore on a new file
InitWith(keys, ser, maxLength) == InitOn(EmptyBucket, keys, ser, maxLength)

\* one store in each configuration: a request flow with every input, and a
\* second flow that creates sessions beside it
Init == \E k \in KeySets, s \in Serializers, m \in MaxLengths : InitWith(k, s, m)

Next ==
    \/ \E c \in {NoCookie, Forged} \cup issued : New("r1", c)
    \/ \E v \in Payloads : SaveDelete("r1", v, 0)
    \/ \E v \in Payloads : SaveBegin("r1", v, DefaultMaxAge)
    \/ SaveCommit("r1")
    \/ New("r2", NoCookie)
    \/ SaveBegin("r2", P_foo, DefaultMaxAge)
    \/ SaveCommit("r2")

Spec == Init /\ [][Next]_vars

\* stores that follow each other on one file, under either serializer
InitRestart == \E s \in Serializers : InitWith("k1", s, 0)

NextRestart ==
    \/ \E c \in {NoCookie, Forged} \cup issued : New("r1", c)
    \/ \E v \in {P_foo, P_int} : SaveDelete("r1", v, 0)
    \/ \E v \in {P_foo, P_int} : SaveBegin("r1", v, DefaultMaxAge)
    \/ SaveCommit("r1")
    \/ Close
    \/ \E s \in Serializers : Open("k1", s, 0)
    \/ RemoveFile

SpecRestart == InitRestart /\ [][NextRestart]_vars

\* one store with its worker, the clock, and a request beside them
InitReap == InitWith("k1", "gob", 0)

NextReap ==
    \/ \E c \in {NoCookie} \cup issued : New("r1", c)
    \/ SaveDelete("r1", P_foo, 0)
    \/ SaveBegin("r1", P_foo, DefaultMaxAge)
    \/ SaveCommit("r1")
    \/ Tick
    \/ ReaperRead
    \/ ReaperWrite

SpecReap == InitReap /\ [][NextReap]_vars

\* Options.MaxAge as a caller sets it on the session before Save
PositiveAges == {DefaultMaxAge, DefaultMaxAge + 1}
NonPositiveAges == {0, -1}

\* one store with its worker and the clock, and one request flow whose
\* caller changes the session's MaxAge
InitAges == InitWith("k1", "gob", 0)

NextAges ==
    \/ \E c \in {NoCookie} \cup issued : New("r1", c)
    \/ \E a \in NonPositiveAges : SaveDelete("r1", P_foo, a)
    \/ \E a \in PositiveAges : SaveBegin("r1", P_foo, a)
    \/ SaveCommit("r1")
    \/ Tick
    \/ ReaperRead
    \/ ReaperWrite

SpecAges == InitAges /\ [][NextAges]_vars

\* two request flows that hold the same session (the first one created)
\* and save it with different payloads, beside the worker and the clock
InitConc == InitWith("k1", "gob", 0)

NextConc ==
    \/ issued = {} /\ New("r1", NoCookie)
    \/ \E c \in issued : New("r1", c)
    \/ SaveBegin("r1", P_foo, DefaultMaxAge)
    \/ SaveCommit("r1")
    \/ \E c \in issued : New("r2", c)
    \/ SaveBegin("r2", P_int, DefaultMaxAge)
    \/ SaveCommit("r2")
    \/ Tick
    \/ ReaperRead
    \/ ReaperWrite

SpecConc == InitConc /\ [][NextConc]_vars

\* a database handed to NewStoreWithDB in whose sessions bucket another
\* user of the handle keeps a plain key
SharedFile == (BucketName :> Sub((ForeignKey :> Leaf(Ascii(<<"1">>)))))

\* one store with its worker, on a new file or on a shared one, whose
\* database is closed at any moment while the worker goes on
InitWorker == \E f \in {EmptyBucket, SharedFile} : InitOn(f, "k1", "gob", 0)

NextWorker ==
    \/ New("r1", NoCookie)
    \/ SaveBegin("r1", P_foo, DefaultMaxAge)
    \/ SaveCommit("r1")
    \/ Tick
    \/ ReaperRead
    \/ ReaperWrite
    \/ Close

SpecWorker == InitWorker /\ [][NextWorker]_vars

\* one store with one session, whose worker is cancelled at any moment.
\* The ticker fires again and again, a pass that was started ends, and a
\* worker that finds ctx.Done() ready at its select again and again takes it
\* (select picks among the ready cases at random).
InitCancel == InitWith("k1", "gob", 0)

NextCancel ==
    \/ issued = {} /\ New("r1", NoCookie)
    \/ SaveBegin("r1", P_foo, DefaultMaxAge)
    \/ SaveCommit("r1")
    \/ Tick
    \/ ReaperRead
    \/ ReaperWrite
    \/ Cancel
    \/ ReaperStop

SpecCancel ==
    /\ InitCancel
    /\ [][NextCancel]_vars
    /\ WF_vars(ReaperRead)
    /\ WF_vars(ReaperWrite)
    /\ SF_vars(ReaperStop)

----------------------------------------------------------------------------
(* Properties *)

\* the last step was op, taken by flow r
Last(op, r) == hist.op = op /\ hist.r = r

\* C1: a New that directly follows a successful Save (MaxAge > 0) and
\* presents the token that Save emitted returns a session that is not new,
\* carries the same identifier, and holds the saved payload (exactly under
\* gob, up to the textual normalization under JSON).
C1_RoundTrip ==
    \A r \in Reqs :
        (Last("new", r) /\ hist.afterSave /\ req[r].cookie = hist.sv.token)
        => /\ ~req[r].isNew
           /\ req[r].id = hist.sv.id
           /\ req[r].values = RoundTrip(opts.ser, hist.sv.values)

C1_Witness ==
    \E r \in Reqs :
        /\ Last("new", r) /\ hist.afterSave /\ req[r].cookie = hist.sv.token
        /\ opts.ser = "json"
        /\ hist.sv.values = P_int
        /\ req[r].values = JSONNormalize(P_int)

\* C2: when a Save with MaxAge <= 0 of a session whose Record exists returns
\* without error, the Record of that identifier is absent from storage.
C2_DeleteRemovesRecord ==
    \A r \in Reqs :
        (Last("delete", r) /\ req[r].err = Nil) => ~HasBucket(Root, req[r].id)

\* C3: once a session was saved with MaxAge > 0 and then successfully with
\* MaxAge <= 0 (and not saved since), a New that presents the old token
\* returns a session marked new with an empty payload.
C3_LogoutEffective ==
    \A r \in Reqs :
        (/\ Last("new", r)
         /\ req[r].cookie \in issued
         /\ req[r].cookie.key = opts.keys
         /\ req[r].cookie.id \notin hist.live)
        => (req[r].isNew /\ req[r].values = P_empty)

\* the session q is being saved with MaxAge > 0 and a payload whose
\* serialized form is over the configured, non-zero ceiling
Oversize(q) ==
    /\ opts.maxLength # 0
    /\ q.maxAge > 0
    /\ Serialize(opts.ser, q.values).err = Nil
    /\ Serialize(opts.ser, q.values).b.n > opts.maxLength

\* C4: a step of Save (MaxAge > 0) on a payload over the non-zero ceiling
\* ends the call with an error and leaves the file as it was: no Record is
\* created, an existing Record keeps its values and expired_at.
C4_SizeCeiling ==
    [][\A r \in Reqs :
          (/\ req[r].pc \in {"have", "commit"}
           /\ req'[r].pc \in {"commit", "done"}
           /\ Oversize(req'[r]))
          => (req'[r].pc = "done" /\ req'[r].err # Nil /\ file' = file)]_vars

C4_Witness ==
    \E r \in Reqs :
        /\ Last("begin", r)
        /\ req[r].pc = "done"
        /\ Oversize(req[r])
        /\ req[r].err # Nil
        /\ HasBucket(Root, req[r].id)

\* C5: a Record that a tick's read pass found expired and that was not saved
\* since is gone from storage when that tick's write pass has completed.
C5_ReapedWithinTick ==
    (hist.op = "write" /\ dbOpen /\ ~cancelled)
    => \A i \in 1..Len(reaper.keys) :
           ~(/\ HasBucket(Root, reaper.keys[i])
             /\ IsExpired(BucketOf(Root, reaper.keys[i]), reaper.readAt))

\* expired_at of a session bucket parses to an instant after t
InFuture(sessionBucket, t) ==
    LET ev == BucketGet(sessionBucket, keyExpiredAt)
    IN  /\ ev.fmt = "ascii"
        /\ ParseInt(ev.data).err = Nil
        /\ t < ParseInt(ev.data).n * SubSecond

\* C6: whatever Saves commit between the worker's read pass and its write
\* pass, the write pass removes no Record whose expired_at is in the future
\* at that moment.
C6_ReaperSparesLive ==
    [][(reaper.pc = "write" /\ reaper'.pc = "select")
       => \A id \in DOMAIN Root \ DOMAIN RootIn(file') :
              ~InFuture(BucketOf(Root, id), now)]_vars

\* a write pass has run on a key whose Record was saved again after the
\* read pass, and the Record is still there
C6_Witness ==
    /\ hist.op = "write"
    /\ \E i \in 1..Len(reaper.keys) :
           /\ HasBucket(Root, reaper.keys[i])
           /\ InFuture(BucketOf(Root, reaper.keys[i]), now)

\* C7: Close and the construction of the next store leave the Records as
\* they are, and a token issued before the restart is resolved after it,
\* under the same key material and serializer, to a session that is not new
\* and holds the payload that was saved.
C7_Resolved ==
    \A r \in Reqs :
        (/\ Last("new", r)
         /\ hist.sv.restarted
         /\ hist.sv.id \in hist.live
         /\ req[r].cookie \in issued
         /\ req[r].cookie.id = hist.sv.id
         /\ req[r].cookie.key = opts.keys
         /\ opts.ser = hist.sv.ser)
        => (~req[r].isNew
            /\ req[r].values = RoundTrip(hist.sv.ser, hist.sv.values))

C7_Durability ==
    /\ []C7_Resolved
    /\ [][(dbOpen /\ ~dbOpen') => file' = file]_vars
    /\ [][(~dbOpen /\ dbOpen') => RootIn(file') = Root]_vars

C7_Witness ==
    \E r \in Reqs :
        /\ Last("new", r)
        /\ hist.sv.restarted
        /\ hist.sv.id \in hist.live
        /\ req[r].cookie \in issued
        /\ req[r].cookie.id = hist.sv.id
        /\ opts.ser = hist.sv.ser
        /\ ~req[r].isNew
        /\ req[r].values = P_foo

\* a valid prior Record is recovered for the cookie c: a token is present,
\* the codec opens it, the identifier's bucket exists, its values entry
\* exists and deserializes
Recovered(c) ==
    /\ c # NoCookie
    /\ DecodeMulti(SessionName, c, opts.keys).err = Nil
    /\ HasBucket(Root, c.id)
    /\ HasLeaf(BucketOf(Root, c.id), keyValues)
    /\ Deserialize(opts.ser, BucketOf(Root, c.id)[keyValues].v).err = Nil

\* C8: the session New returns is marked new exactly when no valid prior
\* Record was recovered.
C8_NewFlag ==
    \A r \in Reqs :
        Last("new", r) => (req[r].isNew <=> ~Recovered(req[r].cookie))

\* New was given a good token for a Record the serializer cannot read
C8_Witness ==
    \E r \in Reqs :
        /\ Last("new", r)
        /\ req[r].cookie \in issued
        /\ HasBucket(Root, req[r].cookie.id)
        /\ req[r].isNew
        /\ req[r].err = "decode error"

\* C9: every child of the root bucket holds exactly the entries values and
\* expired_at, and an identifier has a child exactly when it was saved with
\* MaxAge > 0 and not deleted or reaped since.
C9_RecordShape ==
    \A id \in Ids :
        /\ HasBucket(Root, id)
           => DOMAIN BucketOf(Root, id) = {keyValues, keyExpiredAt}
        /\ HasBucket(Root, id) <=> id \in hist.live

\* C10: a Save that returns an error has added no cookie directive to the
\* response.
C10_NoCookieOnError ==
    \A r \in Reqs :
        (req[r].pc = "done" /\ req[r].err # Nil) => req[r].resp = << >>

\* the Record was written and sealing the token failed
C10_Witness ==
    \E r \in Reqs :
        /\ Last("save", r)
        /\ req[r].pc = "done"
        /\ req[r].err = "no codecs provided"
        /\ HasBucket(Root, req[r].id)
        /\ req[r].resp = << >>

\* C11: a Save that returns an error, for whatever cause, the failure to
\* seal the token included, leaves the file as it was: its steps create,
\* update and remove no Record.
C11_NoPartialEffects ==
    [][\A r \in Reqs :
          (/\ req[r].pc \in {"have", "commit"}
           /\ req'[r].pc = "done"
           /\ req'[r].err # Nil)
          => file' = file]_vars

\* a Save with MaxAge <= 0 of an identifier that has no bucket under the
\* sessions bucket returns an error, changes nothing and sets no cookie
AbsentBucketIsError ==
    [][\A r \in Reqs :
          (/\ req[r].pc = "have"
           /\ req'[r].pc = "done"
           /\ req'[r].maxAge <= 0
           /\ ~HasBucket(Root, req[r].id))
          => (req'[r].err # Nil /\ file' = file /\ req'[r].resp = << >>)]_vars

OneCookie(r, maxAge) ==
    /\ Len(req[r].resp) = 1
    /\ req[r].resp[1].name = SessionName
    /\ req[r].resp[1].maxAge = maxAge
    /\ IF req[r].maxAge > 0
       THEN /\ req[r].resp[1].value =
                   [name |-> SessionName, id |-> req[r].id, key |-> opts.keys]
            /\ HasBucket(Root, req[r].id)
            /\ Last("save", r) => hist.sv.id = req[r].id
       ELSE /\ req[r].resp[1].value = NoCookie
            /\ maxAge <= 0

\* C13, as stated: every Save that returns without error has set exactly one
\* cookie, named after the session; for MaxAge > 0 it carries the sealed
\* (name, id) of the written Record and the store's configured lifetime as
\* max-age, for MaxAge <= 0 an empty value and a non-positive max-age.
C13_CookieOnSuccess ==
    \A r \in Reqs :
        (req[r].pc = "done" /\ req[r].err = Nil)
        => OneCookie(r, IF req[r].maxAge > 0 THEN DefaultMaxAge
                        ELSE req[r].maxAge)

\* C13, amended: the same, with the max-age of the cookie being the MaxAge
\* of the session's own options (the store's configured lifetime unless the
\* caller changed it).
C13_CookieCarriesSessionAge ==
    \A r \in Reqs :
        (req[r].pc = "done" /\ req[r].err = Nil) => OneCookie(r, req[r].maxAge)

\* a Save of a session whose caller set another positive MaxAge
C13_Witness ==
    \E r \in Reqs :
        /\ Last("save", r)
        /\ req[r].err = Nil
        /\ req[r].maxAge = DefaultMaxAge + 1
        /\ req[r].resp[1].maxAge = DefaultMaxAge + 1
        /\ req[r].resp[1].value.id = hist.sv.id

\* the worker's classification as the code computes it: missing, not
\* parsable, or an instant strictly before t
StrictlyBefore(sessionBucket, t) ==
    LET ev == BucketGet(sessionBucket, keyExpiredAt)
    IN  \/ ev.fmt # "ascii"
        \/ ParseInt(ev.data).err # Nil
        \/ ParseInt(ev.data).n * SubSecond < t

\* the classification of the claim: missing, not parsable, or an instant at
\* or before t
AtOrBefore(sessionBucket, t) ==
    LET ev == BucketGet(sessionBucket, keyExpiredAt)
    IN  \/ ev.fmt # "ascii"
        \/ ParseInt(ev.data).err # Nil
        \/ ParseInt(ev.data).n * SubSecond <= t

Collected(id) == \E i \in 1..Len(reaper.keys) : reaper.keys[i] = id

\* a read pass collects exactly the session buckets whose expired_at is
\* missing, not parsable or strictly before the instant of the pass
ExpiredIffStrictlyBefore ==
    (hist.op = "read" /\ dbOpen)
    => \A id \in DOMAIN Root :
           Collected(id) <=> StrictlyBefore(BucketOf(Root, id), reaper.readAt)

\* C14: a read pass classifies a session bucket as expired exactly when its
\* expired_at is missing, is not a decimal integer, or is an instant at or
\* before the instant of the pass (so a Record whose expired_at is that very
\* instant is expired, one whose expired_at is later is not).
C14_ExpiryClassification ==
    (hist.op = "read" /\ dbOpen)
    => \A id \in DOMAIN Root :
           Collected(id) <=> AtOrBefore(BucketOf(Root, id), reaper.readAt)

\* the Record of identifier id carries an expired_at that is the decimal
\* Unix second of the instant t plus the store's SessionExpire
StampedAt(id, t) ==
    LET ev == BucketGet(BucketOf(Root, id), keyExpiredAt)
    IN  /\ ev.fmt = "ascii"
        /\ ParseInt(ev.data).err = Nil
        /\ ParseInt(ev.data).n = (t + SessionExpire * SubSecond) \div SubSecond

\* the instants from a save at t for which its expired_at is not yet passed,
\* whatever the truncation to whole seconds took
FreshUntil(t) == t + (SessionExpire - 1) * SubSecond + 1

\* C15: after a successful Save with MaxAge > 0 the Record's expired_at is
\* the instant the Save read the clock plus the store's SessionExpire,
\* whatever the previous expired_at and the session's own MaxAge were, and a
\* read pass that runs before that lifetime is over does not collect the
\* Record, also when the previous expired_at had passed at the Save.
C15_ExpiryStamp ==
    \A r \in Reqs :
        (req[r].pc = "done" /\ req[r].err = Nil /\ req[r].maxAge > 0)
        => /\ HasBucket(Root, req[r].id)
           /\ StampedAt(req[r].id, req[r].at)
           /\ ~IsExpired(BucketOf(Root, req[r].id), req[r].at)
           /\ (hist.op = "read" /\ reaper.readAt <= FreshUntil(req[r].at))
              => ~Collected(req[r].id)

\* a session saved again after its expired_at had passed, with a MaxAge of
\* its own, and a read pass after that Save that does not collect it
C15_Witness ==
    \E r \in Reqs :
        /\ req[r].pc = "done" /\ req[r].err = Nil
        /\ req[r].maxAge = DefaultMaxAge + 1
        /\ hist.sv.resaved
        /\ hist.sv.id = req[r].id
        /\ hist.op = "read"
        /\ reaper.readAt >= req[r].at
        /\ ~Collected(req[r].id)

\* C18: a write pass over the collected keys either removes every one of
\* them from the sessions bucket or leaves the file as it was.
C18_BatchAtomic ==
    [][(reaper.pc = "write" /\ reaper'.pc = "select")
       => \/ \A i \in 1..Len(reaper.keys) :
                 reaper.keys[i] \notin DOMAIN RootIn(file')
          \/ file' = file]_vars

\* a write pass over two keys has failed and both Records are in place
C18_Witness ==
    /\ hist.op = "write"
    /\ hist.writeErr # Nil
    /\ Len(reaper.keys) = 2
    /\ \A i \in 1..Len(reaper.keys) : HasBucket(Root, reaper.keys[i])

\* the session New returns for the good token c of a Record in storage is
\* not new and carries the stored payload
LoadsStored(r) ==
    /\ ~req[r].isNew
    /\ req[r].err = Nil
    /\ req[r].id = req[r].cookie.id
    /\ req[r].values =
           Deserialize(opts.ser,
               BucketGet(BucketOf(Root, req[r].id), keyValues)).values

\* C20: New with a good token for a Record that is in storage returns a
\* session that is not new and carries the stored payload, whether the
\* Record's expired_at has passed or not; a good token yields a new session
\* only when its Record is not in storage.
C20_LoadIgnoresExpiry ==
    \A r \in Reqs :
        (/\ Last("new", r)
         /\ req[r].cookie \in issued
         /\ HasBucket(Root, req[r].cookie.id))
        => LoadsStored(r)

\* New was given the token of a Record whose expired_at has passed
C20_Witness ==
    \E r \in Reqs :
        /\ Last("new", r)
        /\ req[r].cookie \in issued
        /\ HasBucket(Root, req[r].cookie.id)
        /\ IsExpired(BucketOf(Root, req[r].cookie.id), now)
        /\ ~req[r].isNew
        /\ req[r].values = P_foo

\* the Record of id holds exactly the values and the expired_at of one Save
RecordOf(id, save) ==
    BucketOf(Root, id) =
        (keyValues :> Leaf(save.values)) @@ (keyExpiredAt :> Leaf(save.expired_at))

\* C16: whatever the interleaving of two Saves of one identifier, of the
\* worker's passes and of the clock, every Record in storage holds the
\* values and the expired_at of one and the same Save, the one whose Update
\* committed last, with nothing left of the payload of an earlier one; a
\* New reads that payload and a read pass classifies by that expired_at.
C16_LastWriterWins ==
    /\ \A id \in DOMAIN Root :
           /\ id \in DOMAIN hist.rec
           /\ RecordOf(id, hist.rec[id])
    /\ \A r \in Reqs :
           (/\ Last("new", r)
            /\ req[r].cookie \in issued
            /\ HasBucket(Root, req[r].cookie.id))
           => req[r].values =
                  Deserialize(opts.ser, hist.rec[req[r].cookie.id].values).values
    /\ hist.op = "read"
       => \A id \in DOMAIN Root :
              Collected(id)
              <=> IsExpired((keyExpiredAt :> Leaf(hist.rec[id].expired_at)),
                            reaper.readAt)

\* both flows saved the same session; r2 read the clock later and committed
\* first, r1 committed last: the Record is r1's payload with r1's older
\* expired_at
C16_Witness ==
    /\ Last("save", "r1")
    /\ req["r1"].err = Nil
    /\ req["r2"].pc = "done" /\ req["r2"].err = Nil
    /\ req["r2"].id = req["r1"].id
    /\ req["r2"].at > req["r1"].at
    /\ Unix(req["r2"].at) > Unix(req["r1"].at)
    /\ RecordOf(req["r1"].id,
           [values |-> GobSerialize(P_foo).b,
            expired_at |-> Ascii(FormatInt(
                (req["r1"].at + SessionExpire * SubSecond) \div SubSecond))])

\* a tick whose View or Update failed leaves the worker at its select, not
\* stopped and with no pass pending
FailedTickIsIsolated ==
    /\ (hist.op = "read" /\ hist.readErr = NotOpen) => reaper.pc = "select"
    /\ (hist.op = "write" /\ hist.writeErr # Nil) => reaper.pc = "select"

\* C17: after a read pass that failed no write pass is performed, after a
\* write pass that failed the worker is back at its select, and in neither
\* case has the worker stopped.
C17_FailureIsolation ==
    /\ (hist.op = "read" /\ hist.readErr # Nil) => reaper.pc = "select"
    /\ (hist.op = "write" /\ hist.writeErr # Nil) => reaper.pc = "select"

\* C19: once ctx is cancelled the worker stops; it stops only when ctx is
\* cancelled; from inside a tick nothing but the write pass moves it, and
\* the write pass does run; a stopped worker makes no further pass; and
\* while ctx is never cancelled the read passes go on.
C19_Cancellation ==
    /\ cancelled ~> (reaper.pc = "stopped")
    /\ [](reaper.pc = "stopped" => cancelled)
    /\ [][reaper.pc = "write"
          => (reaper' = reaper \/ (hist'.op = "write" /\ reaper'.pc = "select"))]_vars
    /\ (reaper.pc = "write") ~> (hist.op = "write")
    /\ [][reaper.pc = "stopped"
          => (reaper' = reaper /\ hist'.op \notin {"read", "write"})]_vars
    /\ ([]~cancelled) => []<>(hist.op = "read")

\* the worker has stopped on cancellation after a write pass of its own
C19_Witness ==
    /\ reaper.pc = "stopped"
    /\ cancelled
    /\ hist.op = "stop"
    /\ hist.writeErr # Nil

\* the cookie of flow r is a token the store's codecs open
Opens(r) ==
    /\ req[r].cookie # NoCookie
    /\ DecodeMulti(SessionName, req[r].cookie, opts.keys).err = Nil

\* C21: New keeps the identifier of a token it opened, also when it returns
\* the session marked new; Save with MaxAge > 0 gives an identifier never
\* seen to a session that has none and leaves any other identifier as it
\* is; so after a successful Save of a session opened from a token the
\* Record is under the token's identifier and a load for that token finds
\* it.
C21_IdentifierRetention ==
    /\ [](\A r \in Reqs :
             (Last("new", r) /\ Opens(r)) => req[r].id = req[r].cookie.id)
    /\ [][\A r \in Reqs :
             (/\ req[r].pc = "have"
              /\ req'[r].pc \in {"commit", "done"}
              /\ req'[r].maxAge > 0)
             => IF req[r].id = ""
                THEN req'[r].id # "" /\ req'[r].id \notin UsedIds
                ELSE req'[r].id = req[r].id]_vars
    /\ [][\A r \in Reqs :
             (req[r].pc = "commit" /\ req'[r].pc = "done")
             => req'[r].id = req[r].id]_vars
    /\ [](\A r \in Reqs :
             (Last("save", r) /\ req[r].err = Nil /\ Opens(r))
             => /\ req[r].id = req[r].cookie.id
                /\ Load(file, BucketName, req[r].cookie.id, opts.ser).err = Nil
                /\ Load(file, BucketName, req[r].cookie.id, opts.ser).exists)

\* a session New returned marked new for a good token has been saved, and
\* its Record is back under the identifier of that token
C21_Witness ==
    \E r \in Reqs :
        /\ Last("save", r)
        /\ req[r].err = Nil
        /\ req[r].isNew
        /\ req[r].cookie \in issued
        /\ Opens(r)
        /\ req[r].id = req[r].cookie.id
        /\ Load(file, BucketName, req[r].cookie.id, opts.ser).exists

====
